---- MODULE Spec2Model ----
(***************************************************************************)
(* Joycon2 BLE client (joycon2_ble_client.py): discovery (find_joycon2),   *)
(* the session controller (connect_to_address), the notification handler   *)
(* and the packet decoder (parse_joycon2_data).                            *)
(*                                                                         *)
(* The specifications share the variables:                                  *)
(*   SpecDiscovery  main() without --address up to the dispatch after      *)
(*                  find_joycon2 returned;                                 *)
(*   SpecSession    main() from the call of connect_to_address (directly   *)
(*                  or through connect_and_communicate) to its end;        *)
(*   SpecDecode     parse_joycon2_data applied to one buffer;              *)
(*   SpecSide       the side rule of process_joycon2_device on one payload.*)
(***************************************************************************)
EXTENDS Integers, Sequences, FiniteSets, TLC

VARIABLES
    (* main *)
    mpc,                      \* position of main(): see MainPcs
    mode,                     \* "address" (--address given) or "scan"
    device_info,              \* main's device_info / the value find_joycon2 returned
    mainSaw,                  \* what main observed of the session call
    (* find_joycon2 *)
    fpc,                      \* position of find_joycon2
    i,                        \* loop variable of range(100)
    found_device,
    found_manufacturer_data,
    scanning,                 \* the callback scanner is started and not yet stopped
    fexc,                     \* exception pending in find_joycon2's try/finally
    enumerated,               \* the list BleakScanner.discover returned
    (* history of find_joycon2 *)
    firstMatch,               \* <<device, payload>> of the first matching advertisement
    srcDev,                   \* device of the entry the record's data was taken from
    srcMap,                   \* manufacturer-data map that entry was found in
    waitedAfterMatch,         \* a poll wait was started with found_device set
    fallbackStarted,          \* BleakScanner.discover was called
    waits,                    \* number of poll waits completed
    overlapped,               \* discover was called while the callback scanner ran
    (* connect_to_address *)
    spc,                      \* position of connect_to_address
    k,                        \* index of the write command being sent (1-based)
    open,                     \* the BleakClient connection is open
    opens,                    \* number of times the connection was opened
    releases,                 \* number of times it was released
    subscribed,               \* start_notify has registered notification_handler
    log,                      \* handshake events, in order
    exc,                      \* exception travelling out of the async-with body
    failedWrite,              \* index of the write that failed, 0 if none
    failure,                  \* the transport call that failed: connect, write, subscribe
    reported,                 \* where "Connection error" was printed: line332, line284
    (* notification path *)
    last_mouse_x,
    last_mouse_y,
    out,                      \* what the last notification_handler call printed
    lastData,                 \* the buffer of the last notification delivered
    malformedSeen,            \* some notification failed to decode
    escaped,                  \* an exception left notification_handler
    goodXY,                   \* MouseX, MouseY of the last report decoded, <<0, 0>> before
    (* SpecDecode *)
    dbuf,                     \* the buffer handed to parse_joycon2_data
    dres,                     \* its outcome
    (* SpecSide *)
    spay,                     \* the manufacturer_bytes handed to process_joycon2_device
    sres,                     \* the dict it returned
    (* SpecButtons *)
    bmask,                    \* the buttons value handed to parse_buttons
    bres,                     \* the list it returned
    (* SpecStick *)
    sx,                       \* the 12-bit values packed into the stick field
    sy,
    soff,                     \* the offset of the stick field
    sout                      \* what parse_stick returned

mainVars == <<mpc, mode, device_info, mainSaw>>
findVars == <<fpc, i, found_device, found_manufacturer_data, scanning, fexc, enumerated>>
findHist ==
    <<firstMatch, srcDev, srcMap, waitedAfterMatch, fallbackStarted, waits, overlapped>>
connVars ==
    <<spc, k, open, opens, releases, subscribed, log, exc, failedWrite, failure, reported>>
notifVars ==
    <<last_mouse_x, last_mouse_y, out, lastData, malformedSeen, escaped, goodXY>>
sideVars == <<spay, sres>>
btnVars == <<bmask, bres>>
stickVars == <<sx, sy, soff, sout>>
decVars == <<dbuf, dres, sideVars, btnVars, stickVars>>
vars == <<mainVars, findVars, findHist, connVars, notifVars, decVars>>

\* Python's None, for a name (a string), a dict (a record), a bytes object (a
\* sequence); TLC compares values of one kind only
None == "None"
NoneDict == [kind |-> "None"]
NoneBytes == <<-1>>

(***************************************************************************)
(* Bounds of the model                                                     *)
(***************************************************************************)
\* longest notification buffer
MaxBufLen == 64
\* longest device list BleakScanner.discover returns
MaxDevices == 2

(***************************************************************************)
(* Bytes and integers                                                      *)
(***************************************************************************)
Min(a, b) == IF a < b THEN a ELSE b

\* data[off] of a bytes object; only used where off < len(data)
ByteAt(data, off) == data[off + 1]

\* data[a:b]: Python slicing clips to the length, it never raises
Slice(data, a, b) ==
    IF a >= Min(b, Len(data)) THEN << >> ELSE SubSeq(data, a + 1, Min(b, Len(data)))

RECURSIVE from_bytes_little(_)
\* int.from_bytes(d, "little")
from_bytes_little(d) ==
    IF d = << >> THEN 0 ELSE d[1] + 256 * from_bytes_little(Tail(d))

RECURSIVE BitAnd(_, _)
\* a & b on non-negative integers
BitAnd(a, b) ==
    IF a = 0 \/ b = 0 THEN 0
    ELSE (a % 2) * (b % 2) + 2 * BitAnd(a \div 2, b \div 2)

\* A 32-bit unsigned value is kept as <<high 16 bits, low 16 bits>>: TLC's integers
\* end at 2^31 - 1.
\* int.from_bytes(d, "little") of a slice of at most four bytes
\* (from_bytes_big32: the bytes taken most significant first)
from_bytes_big32(d) ==
    LET r == [ p \in 1..Len(d) |-> d[Len(d) + 1 - p] ]
    IN  <<from_bytes_little(Slice(r, 2, 4)), from_bytes_little(Slice(r, 0, 2))>>
from_bytes_little32(d) ==
    <<from_bytes_little(Slice(d, 2, 4)), from_bytes_little(Slice(d, 0, 2))>>

\* a & b on 32-bit values
BitAnd32(a, b) == <<BitAnd(a[1], b[1]), BitAnd(a[2], b[2])>>

\* struct.unpack_from needs two bytes at offset: otherwise struct.error
CanUnpack16(data, offset) == offset + 2 <= Len(data)

\* data[off] raises IndexError unless off < len(data) (CanIndexLax: an indexing that
\* never raises)
CanIndexLax(data, off) == TRUE
CanIndex(data, off) == off < Len(data)

to_uint16(b, offset) == from_bytes_little(Slice(b, offset, offset + 2))

to_int16(b, offset) ==
    LET u == to_uint16(b, offset) IN IF u >= 32768 THEN u - 65536 ELSE u

\* (parse_stick_shift8: y taken from bit 8 on)
parse_stick_shift8(data, offset) ==
    LET val == from_bytes_little(Slice(data, offset, offset + 3))
    IN  <<BitAnd(val, 4095), BitAnd(val \div 256, 4095)>>
parse_stick(data, offset) ==
    LET val == from_bytes_little(Slice(data, offset, offset + 3))
    IN  <<BitAnd(val, 4095), BitAnd(val \div 4096, 4095)>>

\* offsets read with to_int16 / to_uint16, in the order the dict literal evaluates them
Unpack16Offsets ==
    <<16, 18, 20, 22, 24, 26, 28, 31, 40, 46, 48, 50, 52, 54, 56, 58>>

\* offsets read by plain indexing (TriggerL, TriggerR)
IndexOffsets == <<60, 61>>

\* the exception the dict literal of parse_joycon2_data raises on data, or None
DecodeException(data) ==
    IF \E n \in 1..Len(Unpack16Offsets) : ~CanUnpack16(data, Unpack16Offsets[n])
    THEN "struct.error"
    ELSE IF \E n \in 1..Len(IndexOffsets) : ~CanIndex(data, IndexOffsets[n])
    THEN "IndexError"
    ELSE None

\* the dict parse_joycon2_data builds; floats are kept as <<numerator, denominator>>
ParsedDict(data) ==
    [ PacketID          |-> from_bytes_little(Slice(data, 0, 3)),
      Buttons           |-> from_bytes_little32(Slice(data, 3, 7)),
      LeftStick         |-> parse_stick(data, 10),
      RightStick        |-> parse_stick(data, 13),
      MouseX            |-> to_int16(data, 16),
      MouseY            |-> to_int16(data, 18),
      MouseUnk          |-> to_int16(data, 20),
      MouseDistance     |-> to_int16(data, 22),
      MagX              |-> to_int16(data, 24),
      MagY              |-> to_int16(data, 26),
      MagZ              |-> to_int16(data, 28),
      BatteryVoltageRaw |-> to_uint16(data, 31),
      BatteryCurrentRaw |-> to_int16(data, 40),
      TemperatureRaw    |-> to_int16(data, 46),
      AccelX            |-> to_int16(data, 48),
      AccelY            |-> to_int16(data, 50),
      AccelZ            |-> to_int16(data, 52),
      GyroX             |-> to_int16(data, 54),
      GyroY             |-> to_int16(data, 56),
      GyroZ             |-> to_int16(data, 58),
      TriggerL          |-> IF 60 < Len(data) THEN ByteAt(data, 60) ELSE 0,
      TriggerR          |-> IF 61 < Len(data) THEN ByteAt(data, 61) ELSE 0,
      BatteryVoltageV   |-> <<to_uint16(data, 31), 1000>>,
      BatteryCurrentmA  |-> <<to_int16(data, 40), 100>>,
      TemperatureC      |-> <<25 * 127 + to_int16(data, 46), 127>> ]

\* parse_joycon2_data: a report, or the exception it raises
parse_joycon2_data(data) ==
    IF DecodeException(data) = None
    THEN [ok |-> TRUE, parsed |-> ParsedDict(data)]
    ELSE [ok |-> FALSE, error |-> DecodeException(data)]

\* button_masks, in the order of the dict literal (the four arrow names are
\* spelled DOWN, UP, RIGHT, LEFT)
\* (button_masks_overlap: the LS entry also covers the RS bit)
button_masks_overlap ==
    << <<<<32768, 0>>, "ZL">>, <<<<16384, 0>>, "L">>, <<<<1, 0>>, "SELECT">>,
       <<<<12, 0>>, "LS">>, <<<<256, 0>>, "DOWN">>, <<<<512, 0>>, "UP">>,
       <<<<1024, 0>>, "RIGHT">>, <<<<2048, 0>>, "LEFT">>, <<<<32, 0>>, "CAMERA">>,
       <<<<4096, 0>>, "SR(L)">>, <<<<8192, 0>>, "SL(L)">>, <<<<16, 0>>, "HOME">>,
       <<<<64, 0>>, "CHAT">>, <<<<2, 0>>, "START">>, <<<<0, 4096>>, "SR(R)">>,
       <<<<0, 8192>>, "SL(R)">>, <<<<0, 16384>>, "R">>, <<<<0, 32768>>, "ZR">>,
       <<<<4, 0>>, "RS">>, <<<<0, 256>>, "Y">>, <<<<0, 512>>, "X">>,
       <<<<0, 1024>>, "B">>, <<<<0, 2048>>, "A">> >>
button_masks ==
    << <<<<32768, 0>>, "ZL">>, <<<<16384, 0>>, "L">>, <<<<1, 0>>, "SELECT">>,
       <<<<8, 0>>, "LS">>, <<<<256, 0>>, "DOWN">>, <<<<512, 0>>, "UP">>,
       <<<<1024, 0>>, "RIGHT">>, <<<<2048, 0>>, "LEFT">>, <<<<32, 0>>, "CAMERA">>,
       <<<<4096, 0>>, "SR(L)">>, <<<<8192, 0>>, "SL(L)">>, <<<<16, 0>>, "HOME">>,
       <<<<64, 0>>, "CHAT">>, <<<<2, 0>>, "START">>, <<<<0, 4096>>, "SR(R)">>,
       <<<<0, 8192>>, "SL(R)">>, <<<<0, 16384>>, "R">>, <<<<0, 32768>>, "ZR">>,
       <<<<4, 0>>, "RS">>, <<<<0, 256>>, "Y">>, <<<<0, 512>>, "X">>,
       <<<<0, 1024>>, "B">>, <<<<0, 2048>>, "A">> >>

RECURSIVE ButtonsFrom(_, _)
\* the for loop of parse_buttons from table entry n on
ButtonsFrom(buttons, n) ==
    IF n > Len(button_masks) THEN << >>
    ELSE IF BitAnd32(buttons, button_masks[n][1]) # <<0, 0>>
    THEN <<button_masks[n][2]>> \o ButtonsFrom(buttons, n + 1)
    ELSE ButtonsFrom(buttons, n + 1)

parse_buttons(buttons) == ButtonsFrom(buttons, 1)

(***************************************************************************)
(* Discovery: advertisements, devices, records                             *)
(***************************************************************************)
JOYCON2_MANUFACTURER_ID == 1363          \* 0x0553

\* range(100)
NPolls == 100

Devices == {"dev1", "dev2"}

\* company ids seen on the air: the Joycon2 id and a foreign one (0x004C)
CompanyIds == {JOYCON2_MANUFACTURER_ID, 76}

\* the Joycon2 payloads on the air: six bytes ending in 0x66, seven bytes with 0x67
\* at index 5
AirPayloads == { <<1, 2, 3, 4, 5, 102>>, <<1, 2, 3, 4, 5, 103, 0>> }

EmptyMap == [c \in {} |-> << >>]

\* manufacturer_data dicts: company id -> bytes
MfrMaps ==
    { m \in UNION { [S -> AirPayloads \cup {<<0>>}] : S \in SUBSET CompanyIds } :
        \A c \in DOMAIN m : (m[c] = <<0>>) <=> (c # JOYCON2_MANUFACTURER_ID) }

\* one advertisement event: the device, advertisement_data.manufacturer_data, and
\* device.metadata["manufacturer_data"] when the device has a metadata attribute
Adverts ==
    { a \in [device : Devices, adv : MfrMaps, hasMeta : BOOLEAN, meta : MfrMaps] :
        ~a.hasMeta => a.meta = EmptyMap }

\* one device of the list BleakScanner.discover returns
DevEntries ==
    { d \in [device : Devices, hasMeta : BOOLEAN, meta : MfrMaps] :
        ~d.hasMeta => d.meta = EmptyMap }

DeviceLists == UNION { [1..n -> DevEntries] : n \in 0..MaxDevices }

\* the test "company_id == JOYCON2_MANUFACTURER_ID" of the three scan loops
\* (MatchesAnyId: a loop without the test)
MatchesAnyId(company_id) == TRUE
MatchesId(company_id) == company_id = JOYCON2_MANUFACTURER_ID

\* the side rule of process_joycon2_device (device_side_len6: the length test
\* admits six bytes)
device_side_len6(manufacturer_bytes) ==
    IF Len(manufacturer_bytes) >= 6
    THEN LET byte6 == ByteAt(manufacturer_bytes, 5)
         IN  IF byte6 = 103 THEN "L"
             ELSE IF byte6 = 102 THEN "R"
             ELSE IF byte6 = 115 THEN "GCCon"
             ELSE "Unknown"
    ELSE "Unknown"
device_side(manufacturer_bytes) ==
    IF Len(manufacturer_bytes) >= 7
    THEN LET byte6 == ByteAt(manufacturer_bytes, 5)
         IN  IF byte6 = 103 THEN "L"
             ELSE IF byte6 = 102 THEN "R"
             ELSE IF byte6 = 115 THEN "GCCon"
             ELSE "Unknown"
    ELSE "Unknown"

\* the dict process_joycon2_device returns
process_joycon2_device(device, manufacturer_bytes) ==
    [ device            |-> device,
      side              |-> device_side(manufacturer_bytes),
      manufacturer_data |-> manufacturer_bytes ]

\* the loop test "found_device is not None" (BreakCondNever: a loop without it)
BreakCondNever(fd) == FALSE
BreakCond(fd) == fd # None

\* the head of "for i in range(100)" entered with index n: where find_joycon2
\* suspends next
LoopHead(n, fd) ==
    IF n >= NPolls THEN "f_stopping"
    ELSE IF BreakCond(fd) THEN "f_stopping"
    ELSE "f_sleep"

\* entries of the fallback list that the loop of lines 217-224 matches, as
\* <<position, company id>> (FallbackHitsFirstOnly: a loop over the first device only)
FallbackHitsFirstOnly(devs) ==
    { h \in (1..Min(1, Len(devs))) \X CompanyIds :
        /\ devs[h[1]].hasMeta
        /\ h[2] \in DOMAIN devs[h[1]].meta
        /\ MatchesId(h[2]) }
FallbackHits(devs) ==
    { h \in (1..Len(devs)) \X CompanyIds :
        /\ devs[h[1]].hasMeta
        /\ h[2] \in DOMAIN devs[h[1]].meta
        /\ MatchesId(h[2]) }

(***************************************************************************)
(* find_joycon2 and main's dispatch                                        *)
(***************************************************************************)
\* main without --address calls find_joycon2, which awaits scanner.start()
FindCall ==
    /\ mpc = "m_start" /\ mode = "scan"
    /\ mpc' = "m_find"
    /\ fpc' = "f_starting"
    /\ UNCHANGED <<mode, device_info, mainSaw>>
    /\ UNCHANGED <<i, found_device, found_manufacturer_data, scanning, fexc, enumerated>>
    /\ UNCHANGED <<findHist, connVars, notifVars, decVars>>

\* scanner.start() returns; the loop is entered with i = 0
ScannerStarted ==
    /\ fpc = "f_starting"
    /\ scanning' = TRUE
    /\ i' = 0
    /\ fpc' = LoopHead(0, found_device)
    /\ waitedAfterMatch' = (waitedAfterMatch \/ (fpc' = "f_sleep" /\ found_device # None))
    /\ UNCHANGED <<found_device, found_manufacturer_data, fexc, enumerated>>
    /\ UNCHANGED <<firstMatch, srcDev, srcMap, fallbackStarted, waits, overlapped>>
    /\ UNCHANGED <<mainVars, connVars, notifVars, decVars>>

\* asyncio.sleep(0.1) returns; the loop moves to the next index, and leaves the
\* try block (scanner.stop() is awaited) on break or exhaustion
SleepDone ==
    /\ fpc = "f_sleep"
    /\ waits' = waits + 1
    /\ i' = IF i + 1 < NPolls THEN i + 1 ELSE i
    /\ fpc' = LoopHead(i + 1, found_device)
    /\ waitedAfterMatch' = (waitedAfterMatch \/ (fpc' = "f_sleep" /\ found_device # None))
    /\ UNCHANGED <<found_device, found_manufacturer_data, scanning, fexc, enumerated>>
    /\ UNCHANGED <<firstMatch, srcDev, srcMap, fallbackStarted, overlapped>>
    /\ UNCHANGED <<mainVars, connVars, notifVars, decVars>>

\* the assignments of lines 179-180 / 190-191, with the history of the capture
Capture(dev, map, cid) ==
    /\ found_device' = dev
    /\ found_manufacturer_data' = map[cid]
    /\ srcDev' = dev
    /\ srcMap' = map
    /\ firstMatch' = IF firstMatch[1] = None THEN <<dev, map[cid]>> ELSE firstMatch

\* the scanner delivers one advertisement while find_joycon2 is suspended
enhanced_detection_callback(ad) ==
    /\ scanning
    /\ fpc \in {"f_sleep", "f_stopping"}
    /\ IF \E cid \in DOMAIN ad.adv : MatchesId(cid)
       THEN \E cid \in DOMAIN ad.adv : MatchesId(cid) /\ Capture(ad.device, ad.adv, cid)
       ELSE IF ad.hasMeta /\ \E cid \in DOMAIN ad.meta : MatchesId(cid)
       THEN \E cid \in DOMAIN ad.meta : MatchesId(cid) /\ Capture(ad.device, ad.meta, cid)
       ELSE UNCHANGED <<found_device, found_manufacturer_data, srcDev, srcMap, firstMatch>>
    /\ UNCHANGED <<fpc, i, scanning, fexc, enumerated>>
    /\ UNCHANGED <<waitedAfterMatch, fallbackStarted, waits, overlapped>>
    /\ UNCHANGED <<mainVars, connVars, notifVars, decVars>>

\* scanner.stop() returns: the pending exception leaves find_joycon2 (main does not
\* catch it), or the record is built, or the fallback discover is awaited
StopDone ==
    /\ fpc = "f_stopping"
    /\ scanning' = FALSE
    /\ IF fexc # None
       THEN /\ fpc' = "f_raised"
            /\ mpc' = "m_raised"
            /\ UNCHANGED <<device_info, fallbackStarted, overlapped>>
       ELSE IF found_device # None
       THEN /\ fpc' = "f_returned"
            /\ device_info' = process_joycon2_device(found_device, found_manufacturer_data)
            /\ UNCHANGED <<mpc, fallbackStarted, overlapped>>
       ELSE /\ fpc' = "f_discover"
            /\ fallbackStarted' = TRUE
            /\ overlapped' = (overlapped \/ scanning')
            /\ UNCHANGED <<mpc, device_info>>
    /\ UNCHANGED <<mode, mainSaw>>
    /\ UNCHANGED <<i, found_device, found_manufacturer_data, fexc, enumerated>>
    /\ UNCHANGED <<firstMatch, srcDev, srcMap, waitedAfterMatch, waits>>
    /\ UNCHANGED <<connVars, notifVars, decVars>>

\* BleakScanner.discover(timeout=5.0) returns devs; lines 217-231 run without
\* suspending: the first matching entry is processed, or None is returned
DiscoverDone(devs) ==
    /\ fpc = "f_discover"
    /\ enumerated' = devs
    /\ fpc' = "f_returned"
    /\ IF FallbackHits(devs) = {}
       THEN /\ device_info' = NoneDict
            /\ UNCHANGED <<srcDev, srcMap>>
       ELSE \E h \in FallbackHits(devs) :
            /\ \A g \in FallbackHits(devs) : h[1] <= g[1]
            /\ device_info' =
                   process_joycon2_device(devs[h[1]].device, devs[h[1]].meta[h[2]])
            /\ srcDev' = devs[h[1]].device
            /\ srcMap' = devs[h[1]].meta
    /\ UNCHANGED <<mpc, mode, mainSaw>>
    /\ UNCHANGED <<i, found_device, found_manufacturer_data, scanning, fexc>>
    /\ UNCHANGED <<firstMatch, waitedAfterMatch, fallbackStarted, waits, overlapped>>
    /\ UNCHANGED <<connVars, notifVars, decVars>>

\* the task is cancelled while find_joycon2 is suspended: inside the try block the
\* finally clause stops the scanner first, elsewhere the exception leaves at once;
\* a cancellation that arrives while scanner.stop() is awaited leaves at once too,
\* and the scanner may or may not have stopped by then
\* (CancelFindNoFinally: the wait is not guarded by try/finally)
CancelFindNoFinally ==
    /\ fpc \in {"f_starting", "f_sleep", "f_discover"}
    /\ fexc' = "cancelled"
    /\ fpc' = "f_raised"
    /\ mpc' = "m_raised"
    /\ UNCHANGED <<mode, device_info, mainSaw>>
    /\ UNCHANGED <<i, found_device, found_manufacturer_data, scanning, enumerated>>
    /\ UNCHANGED <<findHist, connVars, notifVars, decVars>>
CancelFind ==
    /\ \/ /\ fpc = "f_sleep"
          /\ fexc' = "cancelled"
          /\ fpc' = "f_stopping"
          /\ UNCHANGED <<mpc, scanning>>
       \/ /\ fpc \in {"f_starting", "f_discover"}
          /\ fexc' = "cancelled"
          /\ fpc' = "f_raised"
          /\ mpc' = "m_raised"
          /\ UNCHANGED scanning
       \/ /\ fpc = "f_stopping" /\ fexc = None
          /\ fexc' = "cancelled_in_stop"
          /\ fpc' = "f_raised"
          /\ mpc' = "m_raised"
          /\ scanning' \in BOOLEAN
    /\ UNCHANGED <<mode, device_info, mainSaw>>
    /\ UNCHANGED <<i, found_device, found_manufacturer_data, enumerated>>
    /\ UNCHANGED <<findHist, connVars, notifVars, decVars>>

\* main after find_joycon2 returned (lines 357-365)
\* (MainDispatchNoTest: connect_and_communicate is called whatever was returned)
MainDispatchNoTest ==
    /\ mpc = "m_find" /\ fpc = "f_returned"
    /\ mpc' = "m_session"
    /\ UNCHANGED <<mode, device_info, mainSaw>>
    /\ UNCHANGED <<findVars, findHist, connVars, notifVars, decVars>>
MainDispatch ==
    /\ mpc = "m_find" /\ fpc = "f_returned"
    /\ mpc' = IF device_info # NoneDict THEN "m_session" ELSE "m_exit"
    /\ UNCHANGED <<mode, device_info, mainSaw>>
    /\ UNCHANGED <<findVars, findHist, connVars, notifVars, decVars>>

(***************************************************************************)
(* Notification buffers                                                    *)
(***************************************************************************)
\* MouseX / MouseY fields as 16-bit words: 10, 7, -32768, 32767 and -5, 0
XWords == {10, 7, 32768, 32767}
YWords == {65531, 0}

\* a buffer of n bytes: the buttons field holds 00 08 00 00, MouseX and MouseY hold
\* xw and yw little-endian, every other byte holds its own offset
MkBuf(n, xw, yw) ==
    [ p \in 1..n |->
        CASE p - 1 = 3  -> 0
          [] p - 1 = 4  -> 8
          [] p - 1 = 5  -> 0
          [] p - 1 = 6  -> 0
          [] p - 1 = 16 -> xw % 256
          [] p - 1 = 17 -> xw \div 256
          [] p - 1 = 18 -> yw % 256
          [] p - 1 = 19 -> yw \div 256
          [] OTHER      -> p - 1 ]

\* lengths of the notifications delivered to a session
NotifyLens == {0, 61, 62, MaxBufLen}

NotifyBufs == { MkBuf(n, xw, yw) : n \in NotifyLens, xw \in XWords, yw \in YWords }

\* the buffers SpecDecode decodes: every length up to MaxBufLen
DecodeBufs == { MkBuf(n, xw, yw) : n \in 0..MaxBufLen, xw \in XWords, yw \in YWords }

(***************************************************************************)
(* connect_to_address, connect_and_communicate, main's handlers            *)
(***************************************************************************)
\* write_commands of lines 298-301 (write_commands_swapped: the two in reverse order)
write_commands_swapped ==
    << <<12, 145, 1, 4, 0, 4, 0, 0, 255, 0, 0, 0>>,
       <<12, 145, 1, 2, 0, 4, 0, 0, 255, 0, 0, 0>> >>
write_commands ==
    << <<12, 145, 1, 2, 0, 4, 0, 0, 255, 0, 0, 0>>,
       <<12, 145, 1, 4, 0, 4, 0, 0, 255, 0, 0, 0>> >>

\* "except Exception" of line 331: catches errors, not the cancellation of the task
\* (CatchNothing: connect_to_address without the except clause)
CatchNothing(e) == FALSE
ExceptException(e) == e = "error"

\* exception e leaves the async-with statement (or the connect failed): line 331
\* catches it and connect_to_address returns; otherwise it travels on, through
\* connect_and_communicate (line 283) when the device was scanned, to main
Leave(e) ==
    /\ spc' = "c_done"
    /\ IF ExceptException(e)
       THEN /\ reported' = "line332"
            /\ mainSaw' = "returned"
            /\ mpc' = "m_exit"
       ELSE IF e = "error" /\ mode = "scan"
       THEN /\ reported' = "line284"
            /\ mainSaw' = "returned"
            /\ mpc' = "m_exit"
       ELSE IF e = "error"
       THEN /\ reported' = reported
            /\ mainSaw' = "exception"
            /\ mpc' = "m_exit"
       ELSE /\ reported' = reported
            /\ mainSaw' = "cancelled"
            /\ mpc' = "m_raised"

\* exception e is raised inside the body of "async with BleakClient(address)":
\* __aexit__ is awaited before e travels on (UnscopedExit: a body outside any
\* async with, e travels on at once)
UnscopedExit(e) ==
    /\ exc' = e
    /\ Leave(e)
    /\ UNCHANGED <<open, releases>>
ScopedExit(e) ==
    /\ exc' = e
    /\ spc' = "c_exiting"
    /\ UNCHANGED <<open, releases, reported, mainSaw, mpc>>

\* main calls connect_to_address (line 348), or connect_and_communicate (line 359),
\* which returns at once without device information and calls it otherwise; the
\* connect of BleakClient.__aenter__ is awaited
SessionCall ==
    /\ spc = "c_idle"
    /\ \/ mpc = "m_start" /\ mode = "address"
       \/ mpc = "m_session" /\ mode = "scan"
    /\ IF mode = "scan" /\ device_info = NoneDict
       THEN /\ mpc' = "m_exit"
            /\ mainSaw' = "returned"
            /\ spc' = "c_done"
       ELSE /\ mpc' = "m_in_session"
            /\ spc' = "c_connecting"
            /\ UNCHANGED mainSaw
    /\ UNCHANGED <<mode, device_info>>
    /\ UNCHANGED <<k, open, opens, releases, subscribed, log, exc, failedWrite, failure, reported>>
    /\ UNCHANGED <<findVars, findHist, notifVars, decVars>>

\* the connect returns or raises; on success the stabilization sleep is awaited
Connect(ok) ==
    /\ spc = "c_connecting"
    /\ IF ok
       THEN /\ open' = TRUE
            /\ opens' = opens + 1
            /\ log' = Append(log, <<"connected">>)
            /\ spc' = "c_stabilizing"
            /\ UNCHANGED <<exc, failure, reported, mainSaw, mpc>>
       ELSE /\ failure' = "connect"
            /\ exc' = "error"
            /\ Leave("error")
            /\ UNCHANGED <<open, opens, log>>
    /\ UNCHANGED <<mode, device_info, k, releases, subscribed, failedWrite>>
    /\ UNCHANGED <<findVars, findHist, notifVars, decVars>>

\* asyncio.sleep(0.5) of line 295 returns; the first write is issued
Stabilized ==
    /\ spc = "c_stabilizing"
    /\ k' = 1
    /\ log' = log \o << <<"delay">>, <<"write_issued", write_commands[1]>> >>
    /\ spc' = "c_writing"
    /\ UNCHANGED <<open, opens, releases, subscribed, exc, failedWrite, failure, reported>>
    /\ UNCHANGED <<mainVars, findVars, findHist, notifVars, decVars>>

\* write_gatt_char raises: the exception leaves the for loop and the with body
\* (WriteFailedIgnored: the error is swallowed and the loop goes on)
WriteFailedIgnored ==
    /\ failedWrite' = k
    /\ failure' = "write"
    /\ spc' = "c_write_delay"
    /\ UNCHANGED <<exc, open, releases, reported, mainSaw, mpc, log>>
WriteFailed ==
    /\ failedWrite' = k
    /\ failure' = "write"
    /\ ScopedExit("error")
    /\ UNCHANGED log

\* write_gatt_char of command k returns or raises
Write(ok) ==
    /\ spc = "c_writing"
    /\ IF ok
       THEN /\ log' = Append(log, <<"write_done", write_commands[k]>>)
            /\ spc' = "c_write_delay"
            /\ UNCHANGED <<exc, open, releases, reported, mainSaw, mpc, failedWrite, failure>>
       ELSE WriteFailed
    /\ UNCHANGED <<mode, device_info, k, opens, subscribed>>
    /\ UNCHANGED <<findVars, findHist, notifVars, decVars>>

\* asyncio.sleep(0.5) of line 306 returns; the next write is issued, or start_notify
WriteDelayDone ==
    /\ spc = "c_write_delay"
    /\ IF k < Len(write_commands)
       THEN /\ k' = k + 1
            /\ log' = log \o << <<"delay">>, <<"write_issued", write_commands[k + 1]>> >>
            /\ spc' = "c_writing"
       ELSE /\ k' = k
            /\ log' = log \o << <<"delay">>, <<"subscribe_issued">> >>
            /\ spc' = "c_subscribing"
    /\ UNCHANGED <<open, opens, releases, subscribed, exc, failedWrite, failure, reported>>
    /\ UNCHANGED <<mainVars, findVars, findHist, notifVars, decVars>>

\* start_notify returns or raises; on success the idle loop sleeps
Subscribe(ok) ==
    /\ spc = "c_subscribing"
    /\ IF ok
       THEN /\ subscribed' = TRUE
            /\ log' = Append(log, <<"subscribed">>)
            /\ spc' = "c_streaming"
            /\ UNCHANGED <<exc, open, releases, reported, mainSaw, mpc, failure>>
       ELSE /\ failure' = "subscribe"
            /\ ScopedExit("error")
            /\ UNCHANGED <<subscribed, log>>
    /\ UNCHANGED <<mode, device_info, k, opens, failedWrite>>
    /\ UNCHANGED <<findVars, findHist, notifVars, decVars>>

\* asyncio.sleep(0.1) of the idle loop returns and is awaited again
Tick ==
    /\ spc = "c_streaming"
    /\ UNCHANGED vars

\* the task is cancelled (Ctrl+C) while connect_to_address is suspended
Cancel ==
    /\ spc \in {"c_connecting", "c_stabilizing", "c_writing", "c_write_delay",
                "c_subscribing", "c_streaming"}
    /\ IF spc = "c_connecting"
       THEN /\ exc' = "cancelled"
            /\ Leave("cancelled")
            /\ UNCHANGED <<open, releases>>
       ELSE ScopedExit("cancelled")
    /\ UNCHANGED <<mode, device_info, k, opens, subscribed, log, failedWrite, failure>>
    /\ UNCHANGED <<findVars, findHist, notifVars, decVars>>

\* BleakClient.__aexit__ returns: the connection is released and the exception
\* travels on
Disconnected ==
    /\ spc = "c_exiting"
    /\ open' = FALSE
    /\ releases' = releases + 1
    /\ Leave(exc)
    /\ UNCHANGED <<mode, device_info, k, opens, subscribed, log, exc, failedWrite, failure>>
    /\ UNCHANGED <<findVars, findHist, notifVars, decVars>>

(***************************************************************************)
(* notification_handler and print_parsed_data                              *)
(***************************************************************************)
\* print_parsed_data: the deltas against the stored position, which is then
\* overwritten; what is printed is kept in out (print_parsed_data_wrapped: deltas
\* taken modulo 2^16; print_parsed_data_torn: last_mouse_y is not stored)
print_parsed_data_wrapped(parsed) ==
    /\ LET Wrap16(d) == ((d + 32768) % 65536) - 32768 IN
       out' = [ kind    |-> "report",
                parsed  |-> parsed,
                DeltaX  |-> Wrap16(parsed.MouseX - last_mouse_x),
                DeltaY  |-> Wrap16(parsed.MouseY - last_mouse_y),
                Pressed |-> parse_buttons(parsed.Buttons) ]
    /\ last_mouse_x' = parsed.MouseX
    /\ last_mouse_y' = parsed.MouseY
print_parsed_data_torn(parsed) ==
    /\ out' = [ kind    |-> "report",
                parsed  |-> parsed,
                DeltaX  |-> parsed.MouseX - last_mouse_x,
                DeltaY  |-> parsed.MouseY - last_mouse_y,
                Pressed |-> parse_buttons(parsed.Buttons) ]
    /\ last_mouse_x' = parsed.MouseX
    /\ last_mouse_y' = last_mouse_y
print_parsed_data(parsed) ==
    /\ out' = [ kind    |-> "report",
                parsed  |-> parsed,
                DeltaX  |-> parsed.MouseX - last_mouse_x,
                DeltaY  |-> parsed.MouseY - last_mouse_y,
                Pressed |-> parse_buttons(parsed.Buttons) ]
    /\ last_mouse_x' = parsed.MouseX
    /\ last_mouse_y' = parsed.MouseY

\* the except clause of lines 318-320: the error and the raw data are printed
\* (no_except_clause: a handler without try/except, the exception leaves it;
\* except_clause_reset: the clause also clears the stored position)
except_clause_reset(data, e) ==
    /\ out' = [kind |-> "error", error |-> e, raw |-> data]
    /\ malformedSeen' = TRUE
    /\ last_mouse_x' = 0
    /\ last_mouse_y' = 0
    /\ UNCHANGED escaped
no_except_clause(data, e) ==
    /\ escaped' = TRUE
    /\ malformedSeen' = TRUE
    /\ UNCHANGED <<out, last_mouse_x, last_mouse_y>>
except_clause(data, e) ==
    /\ out' = [kind |-> "error", error |-> e, raw |-> data]
    /\ malformedSeen' = TRUE
    /\ UNCHANGED <<escaped, last_mouse_x, last_mouse_y>>

\* the transport delivers one notification while the idle loop sleeps
notification_handler(data) ==
    /\ spc = "c_streaming" /\ subscribed /\ open
    /\ lastData' = data
    /\ LET r == parse_joycon2_data(data)
       IN  IF r.ok
           THEN /\ print_parsed_data(r.parsed)
                /\ goodXY' = <<r.parsed.MouseX, r.parsed.MouseY>>
                /\ UNCHANGED <<malformedSeen, escaped>>
           ELSE /\ except_clause(data, r.error)
                /\ UNCHANGED goodXY
    /\ UNCHANGED <<mainVars, findVars, findHist, connVars, decVars>>

(***************************************************************************)
(* The decoder alone                                                       *)
(***************************************************************************)
Decode ==
    /\ dres = NoneDict
    /\ dres' = parse_joycon2_data(dbuf)
    /\ UNCHANGED <<dbuf, sideVars, btnVars, stickVars>>
    /\ UNCHANGED <<mainVars, findVars, findHist, connVars, notifVars>>

(***************************************************************************)
(* Specifications                                                          *)
(***************************************************************************)
InitFindIdle ==
    /\ fpc = "f_idle" /\ i = 0
    /\ found_device = None /\ found_manufacturer_data = NoneBytes
    /\ scanning = FALSE /\ fexc = None /\ enumerated = << >>
    /\ firstMatch = <<None, NoneBytes>> /\ srcDev = None /\ srcMap = EmptyMap
    /\ waitedAfterMatch = FALSE /\ fallbackStarted = FALSE /\ waits = 0
    /\ overlapped = FALSE

InitConn ==
    /\ spc = "c_idle" /\ k = 0
    /\ open = FALSE /\ opens = 0 /\ releases = 0 /\ subscribed = FALSE
    /\ log = << >> /\ exc = None /\ failedWrite = 0 /\ failure = None
    /\ reported = None
    /\ mainSaw = "pending"
    /\ last_mouse_x = 0 /\ last_mouse_y = 0
    /\ out = NoneDict /\ lastData = NoneBytes /\ malformedSeen = FALSE /\ escaped = FALSE
    /\ goodXY = <<0, 0>>

InitSideIdle == spay = << >> /\ sres = NoneDict

\* no list of names yet, no stick pair yet
NoNames == <<"None">>
NoStick == <<-1, -1>>

InitButtonsIdle == bmask = <<0, 0>> /\ bres = NoNames

InitStickIdle == sx = 0 /\ sy = 0 /\ soff = 0 /\ sout = NoStick

InitDecodeIdle ==
    /\ dbuf = << >> /\ dres = NoneDict
    /\ InitSideIdle /\ InitButtonsIdle /\ InitStickIdle

\* main() started without --address
InitDiscovery ==
    /\ mpc = "m_start" /\ mode = "scan" /\ device_info = NoneDict
    /\ InitFindIdle /\ InitConn /\ InitDecodeIdle

NextDiscovery ==
    \/ FindCall
    \/ ScannerStarted
    \/ SleepDone
    \/ \E ad \in Adverts : enhanced_detection_callback(ad)
    \/ StopDone
    \/ \E devs \in DeviceLists : DiscoverDone(devs)
    \/ CancelFind
    \/ MainDispatch

SpecDiscovery == InitDiscovery /\ [][NextDiscovery]_vars

\* main() started with --address, or main() after find_joycon2 returned the record
\* of a device whose first advertisement matched during the first wait
InitSession ==
    /\ InitConn /\ InitDecodeIdle
    /\ \/ /\ mpc = "m_start" /\ mode = "address" /\ device_info = NoneDict
          /\ InitFindIdle
       \/ \E d \in {"dev1"}, p \in AirPayloads :
          /\ mpc = "m_session" /\ mode = "scan"
          /\ device_info = process_joycon2_device(d, p)
          /\ fpc = "f_returned" /\ i = 1 /\ waits = 1
          /\ found_device = d /\ found_manufacturer_data = p
          /\ scanning = FALSE /\ fexc = None /\ enumerated = << >>
          /\ firstMatch = <<d, p>> /\ srcDev = d
          /\ srcMap = [c \in {JOYCON2_MANUFACTURER_ID} |-> p]
          /\ waitedAfterMatch = FALSE /\ fallbackStarted = FALSE
          /\ overlapped = FALSE

NextSession ==
    \/ SessionCall
    \/ \E ok \in BOOLEAN : Connect(ok)
    \/ Stabilized
    \/ \E ok \in BOOLEAN : Write(ok)
    \/ WriteDelayDone
    \/ \E ok \in BOOLEAN : Subscribe(ok)
    \/ Tick
    \/ \E data \in NotifyBufs : notification_handler(data)
    \/ Cancel
    \/ Disconnected

SpecSession == InitSession /\ [][NextSession]_vars

\* the notifications delivered in SpecMain: one malformed, one well-formed
MainBufs == { MkBuf(0, 10, 0), MkBuf(MaxBufLen, 10, 0) }

\* main() without --address from its start to its end: discovery, then the session
NextMain ==
    \/ FindCall
    \/ ScannerStarted
    \/ SleepDone
    \/ \E ad \in Adverts : enhanced_detection_callback(ad)
    \/ StopDone
    \/ \E devs \in DeviceLists : DiscoverDone(devs)
    \/ CancelFind
    \/ MainDispatch
    \/ SessionCall
    \/ \E ok \in BOOLEAN : Connect(ok)
    \/ Stabilized
    \/ \E ok \in BOOLEAN : Write(ok)
    \/ WriteDelayDone
    \/ \E ok \in BOOLEAN : Subscribe(ok)
    \/ Tick
    \/ \E data \in MainBufs : notification_handler(data)
    \/ Cancel
    \/ Disconnected

SpecMain == InitDiscovery /\ [][NextMain]_vars

\* parse_joycon2_data on one buffer
InitDecode ==
    /\ mpc = "m_start" /\ mode = "address" /\ device_info = NoneDict
    /\ InitFindIdle /\ InitConn
    /\ dbuf \in DecodeBufs /\ dres = NoneDict
    /\ InitSideIdle /\ InitButtonsIdle /\ InitStickIdle

NextDecode == Decode

SpecDecode == InitDecode /\ [][NextDecode]_vars

(***************************************************************************)
(* The side rule alone                                                     *)
(***************************************************************************)
\* longest manufacturer payload
MaxPayloadLen == 8

\* a payload of n bytes: b5 at index 5, fill everywhere else
MkPayload(n, b5, fill) == [ p \in 1..n |-> IF p - 1 = 5 THEN b5 ELSE fill ]

\* index-5 bytes: 0x67, 0x66, 0x73 and four others; fill bytes, 0x67 and 0x66 among
\* them
SidePayloads ==
    { MkPayload(n, b5, fill) :
        n \in 0..MaxPayloadLen, b5 \in {103, 102, 115, 0, 101, 104, 255},
        fill \in {0, 102, 103, 255} }

\* process_joycon2_device on spay
Classify ==
    /\ sres = NoneDict
    /\ sres' = process_joycon2_device("dev1", spay)
    /\ UNCHANGED <<spay, dbuf, dres, btnVars, stickVars>>
    /\ UNCHANGED <<mainVars, findVars, findHist, connVars, notifVars>>

InitSide ==
    /\ mpc = "m_start" /\ mode = "scan" /\ device_info = NoneDict
    /\ InitFindIdle /\ InitConn
    /\ dbuf = << >> /\ dres = NoneDict
    /\ InitButtonsIdle /\ InitStickIdle
    /\ spay \in SidePayloads /\ sres = NoneDict

NextSide == Classify

SpecSide == InitSide /\ [][NextSide]_vars

(***************************************************************************)
(* parse_buttons alone                                                     *)
(***************************************************************************)
\* most bits set, or most bits clear, in a buttons value
MaxBits == 2

RECURSIVE Pow2(_)
Pow2(n) == IF n = 0 THEN 1 ELSE 2 * Pow2(n - 1)

RECURSIVE SumPow(_, _)
\* the sum of 2^(b - base) over the bits b of S
SumPow(S, base) ==
    IF S = {} THEN 0
    ELSE LET b == CHOOSE x \in S : TRUE
         IN  Pow2(b - base) + SumPow(S \ {b}, base)

\* the 32-bit value whose set bits are S
MaskOf(S) == <<SumPow(S \cap (16..31), 16), SumPow(S \cap (0..15), 0)>>

RECURSIVE BitSetsUpTo(_)
\* the sets of at most n bit positions
BitSetsUpTo(n) ==
    IF n = 0 THEN {{}}
    ELSE LET P == BitSetsUpTo(n - 1)
         IN  P \cup { S \cup {b} : S \in P, b \in 0..31 }

\* buttons values: at most MaxBits bits set, or at most MaxBits - 1 bits clear
ButtonInputs ==
    { MaskOf(S) : S \in BitSetsUpTo(MaxBits) }
        \cup { MaskOf((0..31) \ S) : S \in BitSetsUpTo(MaxBits - 1) }

\* parse_buttons on bmask
Probe ==
    /\ bres = NoNames
    /\ bres' = parse_buttons(bmask)
    /\ UNCHANGED <<bmask, dbuf, dres, sideVars, stickVars>>
    /\ UNCHANGED <<mainVars, findVars, findHist, connVars, notifVars>>

InitButtons ==
    /\ mpc = "m_start" /\ mode = "address" /\ device_info = NoneDict
    /\ InitFindIdle /\ InitConn
    /\ dbuf = << >> /\ dres = NoneDict /\ InitSideIdle /\ InitStickIdle
    /\ bmask \in ButtonInputs /\ bres = NoNames

NextButtons == Probe

SpecButtons == InitButtons /\ [][NextButtons]_vars

(***************************************************************************)
(* parse_stick alone                                                       *)
(***************************************************************************)
\* 12-bit stick values
StickValues == {0, 1, 15, 16, 255, 256, 2047, 2048, 2748, 4095}

\* the two stick fields of a report: LeftStick and RightStick
StickOffsets == {10, 13}

\* a buffer holding (y << 12) | x as three little-endian bytes at offset off, 0xFF in
\* every other byte, one of them after the field
StickBuf(x, y, off) ==
    LET val == y * 4096 + x
    IN  [ p \in 1..(off + 4) |->
            CASE p - 1 = off     -> val % 256
              [] p - 1 = off + 1 -> (val \div 256) % 256
              [] p - 1 = off + 2 -> val \div 65536
              [] OTHER           -> 255 ]

\* parse_stick on the packed field
Unpack ==
    /\ sout = NoStick
    /\ sout' = parse_stick(StickBuf(sx, sy, soff), soff)
    /\ UNCHANGED <<sx, sy, soff, dbuf, dres, sideVars, btnVars>>
    /\ UNCHANGED <<mainVars, findVars, findHist, connVars, notifVars>>

InitStick ==
    /\ mpc = "m_start" /\ mode = "address" /\ device_info = NoneDict
    /\ InitFindIdle /\ InitConn
    /\ dbuf = << >> /\ dres = NoneDict /\ InitSideIdle /\ InitButtonsIdle
    /\ sx \in StickValues /\ sy \in StickValues /\ soff \in StickOffsets
    /\ sout = NoStick

NextStick == Unpack

SpecStick == InitStick /\ [][NextStick]_vars

(***************************************************************************)
(* Claims                                                                  *)
(***************************************************************************)
Command1 == <<12, 145, 1, 2, 0, 4, 0, 0, 255, 0, 0, 0>>
Command2 == <<12, 145, 1, 4, 0, 4, 0, 0, 255, 0, 0, 0>>

\* the handshake in full
Handshake ==
    << <<"connected">>, <<"delay">>,
       <<"write_issued", Command1>>, <<"write_done", Command1>>, <<"delay">>,
       <<"write_issued", Command2>>, <<"write_done", Command2>>, <<"delay">>,
       <<"subscribe_issued">>, <<"subscribed">> >>

IsPrefix(a, b) == Len(a) <= Len(b) /\ a = SubSeq(b, 1, Len(a))

\* C1: the handshake events of connect_to_address always form a prefix of connect,
\* stabilization delay, write of command 1, delay, write of command 2, delay,
\* subscribe; the subscription is registered only when the whole sequence has run.
C1_HandshakeOrder ==
    /\ IsPrefix(log, Handshake)
    /\ (subscribed => log = Handshake)
    /\ (spc = "c_streaming" => log = Handshake)

C1_Witness == spc = "c_streaming" /\ log = Handshake

\* C2: the connection is opened at most once and released at most once, never
\* released unless open, and when connect_to_address has ended it is closed and
\* was released exactly as often as it was opened.
C2_ReleasedExactlyOnce ==
    /\ opens <= 1 /\ releases <= opens
    /\ (open <=> (opens = 1 /\ releases = 0))
    /\ (spc = "c_done" => (~open /\ releases = opens))

C2_Witness ==
    spc = "c_done" /\ subscribed /\ exc = "cancelled" /\ opens = 1 /\ releases = 1

\* C3 (state part): no exception leaves notification_handler; the last buffer
\* delivered was decoded and printed as a report when it has 62 bytes or more, and
\* reported as an error with its raw bytes otherwise.
C3_Handled ==
    /\ ~escaped
    /\ lastData # NoneBytes =>
         IF Len(lastData) >= 62
         THEN out.kind = "report" /\ out.parsed.TriggerR = lastData[62]
         ELSE out.kind = "error" /\ out.raw = lastData

\* C3 (step part): a step that changes the notification state leaves the session
\* streaming, with the connection open and the subscription in place.
C3_StaysStreaming ==
    notifVars' # notifVars =>
        /\ spc = "c_streaming" /\ spc' = "c_streaming"
        /\ UNCHANGED <<open, subscribed, exc, mainSaw, mpc>>

\* C3: a notification whose decode fails is reported and leaves the session in
\* Streaming; well-formed notifications after it are still decoded and handed on.
C3_DecodeErrorNonFatal == []C3_Handled /\ [][C3_StaysStreaming]_vars

C3_Witness ==
    spc = "c_streaming" /\ malformedSeen /\ out.kind = "report" /\ Len(lastData) >= 62

ReportFields ==
    { "PacketID", "Buttons", "LeftStick", "RightStick", "MouseX", "MouseY",
      "MouseUnk", "MouseDistance", "MagX", "MagY", "MagZ", "BatteryVoltageRaw",
      "BatteryCurrentRaw", "TemperatureRaw", "AccelX", "AccelY", "AccelZ",
      "GyroX", "GyroY", "GyroZ", "TriggerL", "TriggerR", "BatteryVoltageV",
      "BatteryCurrentmA", "TemperatureC" }

\* C4: parse_joycon2_data raises on every buffer shorter than 62 bytes and returns
\* a report with all its fields on every buffer of 62 bytes or more.
C4_ShortBuffersRejected ==
    dres # NoneDict =>
        IF Len(dbuf) < 62
        THEN ~dres.ok
        ELSE /\ dres.ok
             /\ DOMAIN dres.parsed = ReportFields
             /\ dres.parsed.TriggerR = dbuf[62]
             /\ dres.parsed.TriggerL = dbuf[61]

C4_Witness == dres # NoneDict /\ Len(dbuf) = 61 /\ ~dres.ok

WritesIssued == Cardinality({ n \in 1..Len(log) : log[n][1] = "write_issued" })

\* C5: once an activation write has failed, it was the last write issued, the
\* session is ending or ended, and the subscription is neither issued nor
\* registered.
C5_NoRetryAfterWriteFailure ==
    failedWrite # 0 =>
        /\ WritesIssued = failedWrite
        /\ log = SubSeq(Handshake, 1, IF failedWrite = 1 THEN 3 ELSE 6)
        /\ ~subscribed
        /\ spc \in {"c_exiting", "c_done"}

C5_Witness == failedWrite = 1 /\ spc = "c_done"

\* C6 as stated: when a connect, write or subscription failure has ended the
\* session, main has observed an error.
C6_ErrorsReachMain ==
    (failure # None /\ spc = "c_done") => mainSaw = "exception"

\* C6 amended: a connect, write or subscription failure ends the session; it is
\* caught and reported by connect_to_address (line 331), the connection is closed,
\* and main observes a normal return.
C6_ErrorsCaughtInSession ==
    failure # None =>
        /\ spc \in {"c_exiting", "c_done"}
        /\ exc = "error"
        /\ spc = "c_done" =>
             (reported = "line332" /\ mainSaw = "returned" /\ mpc = "m_exit" /\ ~open)

C6_Witness == failure = "subscribe" /\ spc = "c_done" /\ mainSaw = "returned"

\* C7 as stated: the captured device and payload are those of the first matching
\* advertisement.
C7_FirstMatchKept ==
    found_device # None => <<found_device, found_manufacturer_data>> = firstMatch

\* C8: no poll wait is started once a match is captured; with a match captured the
\* fallback scan is never started, and find_joycon2 returns a record with the
\* scanner stopped.
C8_EarlyExit ==
    /\ ~waitedAfterMatch
    /\ found_device # None =>
         /\ ~fallbackStarted
         /\ fpc \in {"f_sleep", "f_stopping", "f_returned", "f_raised"}
         /\ fpc = "f_returned" => (device_info # NoneDict /\ ~scanning)

\* the match arrived during the 100th wait or while the scanner was being stopped
C8_Witness ==
    /\ fpc = "f_returned" /\ waits = NPolls
    /\ found_device # None /\ device_info # NoneDict /\ ~fallbackStarted

\* C9: the fallback scan starts only after all 100 waits ended without a match and
\* the scanner was stopped; None is returned only after the fallback scan, and then
\* no enumerated device carries the Joycon2 id in its metadata.
C9_NotFoundAfterBoth ==
    /\ fallbackStarted =>
         (waits = NPolls /\ found_device = None /\ firstMatch[1] = None /\ ~scanning)
    /\ (fpc = "f_returned" /\ device_info = NoneDict) =>
         /\ fallbackStarted
         /\ \A n \in 1..Len(enumerated) :
                ~(enumerated[n].hasMeta /\ 1363 \in DOMAIN enumerated[n].meta)

C9_Witness == fpc = "f_returned" /\ device_info = NoneDict /\ Len(enumerated) >= 1

\* C10: the captured device and payload, and every record returned, come from a
\* manufacturer-data map that has the key 0x0553: the payload is the one under that
\* key and the device is the one that carried the map.
C10_RecordFromFilter ==
    /\ found_device # None =>
         /\ 1363 \in DOMAIN srcMap
         /\ found_device = srcDev
         /\ found_manufacturer_data = srcMap[1363]
    /\ device_info # NoneDict =>
         /\ 1363 \in DOMAIN srcMap
         /\ device_info.device = srcDev
         /\ device_info.manufacturer_data = srcMap[1363]

C10_Witness ==
    fallbackStarted /\ device_info # NoneDict /\ Cardinality(DOMAIN srcMap) = 2

\* C11: the side is Unknown for every payload shorter than 7 bytes; for a payload
\* of 7 bytes or more it is L, R or GCCon exactly when the byte at index 5 is
\* 0x67, 0x66 or 0x73, whatever the other bytes, and Unknown for any other value.
C11_SideIsTotal ==
    sres # NoneDict =>
        /\ sres.side \in {"L", "R", "GCCon", "Unknown"}
        /\ IF Len(spay) < 7
           THEN sres.side = "Unknown"
           ELSE /\ (sres.side = "L") <=> (spay[6] = 103)
                /\ (sres.side = "R") <=> (spay[6] = 102)
                /\ (sres.side = "GCCon") <=> (spay[6] = 115)
                /\ (sres.side = "Unknown") <=> (spay[6] \notin {103, 102, 115})

\* six bytes with 0x66 at index 5: Unknown
C11_Witness == sres # NoneDict /\ Len(spay) = 6 /\ spay[6] = 102 /\ sres.side = "Unknown"

\* the scenario of C12: find_joycon2 returned after the callback captured a device
\* whose manufacturer data holds, under 0x0553, six bytes with 0x66 at index 5
C12_Scenario ==
    /\ fpc = "f_returned"
    /\ found_device # None
    /\ 1363 \in DOMAIN srcMap
    /\ srcMap[1363] = <<1, 2, 3, 4, 5, 102>>

\* C12 as stated: in the scenario the record has side R, built within the scan
\* window without the fallback pass.
C12_SixBytesRight ==
    C12_Scenario =>
        (device_info # NoneDict /\ device_info.side = "R" /\ ~fallbackStarted)

\* C12 amended: in the scenario the record has side Unknown (six bytes are fewer
\* than the seven the side rule asks for); it carries the captured device and
\* payload and is built within the 100 waits, with the scanner stopped and without
\* the fallback pass.
C12_SixBytesUnknown ==
    C12_Scenario =>
        /\ device_info # NoneDict
        /\ device_info.side = "Unknown"
        /\ device_info.device = found_device
        /\ device_info.manufacturer_data = <<1, 2, 3, 4, 5, 102>>
        /\ waits <= 100
        /\ ~fallbackStarted /\ ~scanning

C12_Witness ==
    C12_Scenario /\ device_info # NoneDict /\ device_info.side = "Unknown" /\ waits < 100

\* the signed 16-bit little-endian value at offset off of buffer b
Int16At(b, off) ==
    LET u == b[off + 1] + 256 * b[off + 2] IN IF u >= 32768 THEN u - 65536 ELSE u

\* C13 (state part): after a report the stored position is that report's pointer
\* position, and the deltas printed lie in [-65535, 65535].
C13_Stored ==
    out.kind = "report" =>
        /\ last_mouse_x = out.parsed.MouseX
        /\ last_mouse_y = out.parsed.MouseY
        /\ out.DeltaX \in -65535..65535
        /\ out.DeltaY \in -65535..65535

\* C13 (step part): a notification that decodes prints the plain differences
\* between its pointer position and that of the previous decoded report (0, 0
\* before the first), and stores its position.
C13_PlainDifference ==
    (notifVars' # notifVars /\ out'.kind = "report") =>
        /\ out'.DeltaX = out'.parsed.MouseX - goodXY[1]
        /\ out'.DeltaY = out'.parsed.MouseY - goodXY[2]
        /\ last_mouse_x' = out'.parsed.MouseX
        /\ last_mouse_y' = out'.parsed.MouseY

\* C13: deltas are plain signed differences against the previous decoded report.
C13_PointerDelta == []C13_Stored /\ [][C13_PlainDifference]_vars

\* from 32767 to -32768: the delta is -65535, not 1
C13_Witness == out.kind = "report" /\ out.DeltaX = -65535 /\ last_mouse_x = -32768

\* C18 (state part): after a report, both halves of the stored position are those
\* of the buffer delivered last.
C18_BothFromLast ==
    out.kind = "report" =>
        /\ Len(lastData) >= 62
        /\ last_mouse_x = Int16At(lastData, 16)
        /\ last_mouse_y = Int16At(lastData, 18)

\* C18 (step part): a step that changes the stored position happens while
\* streaming, and sets both halves from the one buffer it delivers, which it also
\* prints; every other step (an idle-loop tick among them) leaves the position.
C18_OneBufferPerStep ==
    (last_mouse_x' # last_mouse_x \/ last_mouse_y' # last_mouse_y) =>
        /\ spc = "c_streaming" /\ spc' = "c_streaming"
        /\ Len(lastData') >= 62
        /\ last_mouse_x' = Int16At(lastData', 16)
        /\ last_mouse_y' = Int16At(lastData', 18)
        /\ out'.kind = "report"
        /\ out'.parsed.MouseX = last_mouse_x' /\ out'.parsed.MouseY = last_mouse_y'

\* C18: each notification is handled in one step; the stored position never mixes
\* two reports.
C18_AtomicNotifications == []C18_BothFromLast /\ [][C18_OneBufferPerStep]_vars

\* a second report changed one half only: (10, -5) then (10, 0)
C18_Witness ==
    /\ out.kind = "report" /\ last_mouse_x = 10 /\ last_mouse_y = 0
    /\ out.DeltaX = 0 /\ out.DeltaY = 5

\* C19 (state part): the stored position is that of the last report decoded.
C19_StateIsLastGood == <<last_mouse_x, last_mouse_y>> = goodXY

\* C19 (step part): a notification whose decode fails leaves the stored position;
\* the report decoded after it has its deltas taken against the last report decoded.
C19_FailureKeepsState ==
    /\ (notifVars' # notifVars /\ out'.kind = "error") =>
           UNCHANGED <<last_mouse_x, last_mouse_y>>
    /\ (out.kind = "error" /\ out'.kind = "report") =>
           /\ out'.DeltaX = out'.parsed.MouseX - goodXY[1]
           /\ out'.DeltaY = out'.parsed.MouseY - goodXY[2]

\* C19: decode failures do not touch the pointer-delta state.
C19_DecodeFailureFrame == []C19_StateIsLastGood /\ [][C19_FailureKeepsState]_vars

\* a report after a failure after a report at (10, -5)
C19_Witness ==
    /\ malformedSeen /\ out.kind = "report"
    /\ out.parsed.MouseX = 7 /\ out.DeltaX = -3 /\ out.DeltaY = 0

\* a decoded report whose buttons field bytes (offsets 3..6) are 00 08 00 00
C14_Scenario ==
    /\ out.kind = "report"
    /\ SubSeq(lastData, 4, 7) = <<0, 8, 0, 0>>

\* C14 (as stated): buttons bytes 00 08 00 00 decode to exactly the name of mask
\* 0x00080000, LS.
C14_DecodesToLS == C14_Scenario => out.Pressed = <<"LS">>

\* C14 (amended): buttons bytes 00 08 00 00, read little-endian, are 0x00000800, and
\* decode to exactly the name of that mask, A.
C14_DecodesToA ==
    C14_Scenario => (out.parsed.Buttons = <<0, 2048>> /\ out.Pressed = <<"A">>)

\* the 64-byte buffer of the scenario, decoded
C14_Witness == C14_Scenario /\ Len(lastData) = 64 /\ out.Pressed = <<"A">>

\* the table of parse_buttons as <<name, bit position>>
C15_Table ==
    { <<"ZL", 31>>, <<"L", 30>>, <<"SELECT", 16>>, <<"LS", 19>>, <<"DOWN", 24>>,
      <<"UP", 25>>, <<"RIGHT", 26>>, <<"LEFT", 27>>, <<"CAMERA", 21>>,
      <<"SR(L)", 28>>, <<"SL(L)", 29>>, <<"HOME", 20>>, <<"CHAT", 22>>,
      <<"START", 17>>, <<"SR(R)", 12>>, <<"SL(R)", 13>>, <<"R", 14>>, <<"ZR", 15>>,
      <<"RS", 18>>, <<"Y", 8>>, <<"X", 9>>, <<"B", 10>>, <<"A", 11>> }

\* bit b of the 32-bit value m is set
HasBit(m, b) ==
    IF b >= 16 THEN (m[1] \div Pow2(b - 16)) % 2 = 1 ELSE (m[2] \div Pow2(b)) % 2 = 1

\* C15: parse_buttons returns each table name at most once, a name exactly when its
\* bit is set in the input, nothing for bits outside the table, and as many names
\* as table bits are set.
C15_NamesFromBits ==
    bres # NoNames =>
        /\ Cardinality(C15_Table) = 23
        /\ \A e \in C15_Table :
               (\E n \in 1..Len(bres) : bres[n] = e[1]) <=> HasBit(bmask, e[2])
        /\ \A n \in 1..Len(bres) : \E e \in C15_Table : bres[n] = e[1]
        /\ \A m, n \in 1..Len(bres) : m # n => bres[m] # bres[n]
        /\ Len(bres) = Cardinality({ e \in C15_Table : HasBit(bmask, e[2]) })

\* bits 19 and 18: two names, LS and RS
C15_Witness == bmask = <<12, 0>> /\ bres = <<"LS", "RS">>

\* C16: parse_stick returns (x, y) for the field (y << 12) | x written as three
\* little-endian bytes at the stick offset.
C16_StickRoundTrip == sout # NoStick => sout = <<sx, sy>>

\* x with all twelve bits set next to y = 1
C16_Witness == sx = 4095 /\ sy = 1 /\ soff = 13 /\ sout = <<4095, 1>>

\* find_joycon2 returned None
NotFound == fpc = "f_returned" /\ device_info = NoneDict

\* C17: when discovery ends with NotFound no session is started (no connection
\* attempt, no write, no subscription; connect_and_communicate and
\* connect_to_address are not entered) and main ends without an exception.
C17_NotFoundNoSession ==
    NotFound =>
        /\ spc = "c_idle" /\ opens = 0 /\ ~open /\ log = << >> /\ ~subscribed
        /\ failure = None /\ reported = None
        /\ mpc \in {"m_find", "m_exit"}
        /\ mainSaw = "pending"

\* main has ended after both passes found nothing
C17_Witness == NotFound /\ fallbackStarted /\ mpc = "m_exit" /\ waits = NPolls

\* C20 (state part): the callback scanner is not active once the fallback scan has
\* been started or a record has been built, nor after a cancellation during a wait.
C20_StoppedBefore ==
    /\ fpc \in {"f_discover", "f_returned"} => ~scanning
    /\ fallbackStarted => ~scanning
    /\ device_info # NoneDict => ~scanning
    /\ ~overlapped
    /\ (fpc = "f_raised" /\ fexc = "cancelled") => ~scanning

\* C20 (step part): every exit from the polling loop awaits scanner.stop(); the
\* fallback scan starts, and the record is built, in steps that end with the
\* scanner stopped.
C20_ExitStops ==
    /\ (fpc = "f_sleep" /\ fpc' # "f_sleep") => fpc' = "f_stopping"
    /\ (fpc = "f_stopping" /\ fpc' \in {"f_discover", "f_returned"}) => ~scanning'
    /\ (~fallbackStarted /\ fallbackStarted') => ~scanning'
    /\ device_info' # device_info => ~scanning'

\* C20: the callback scanner is stopped on every exit from the polling loop, before
\* the fallback scan and before a record is built.
C20_ScannerStopped == []C20_StoppedBefore /\ [][C20_ExitStops]_vars

\* a cancellation during a wait, after a match was captured
C20_Witness ==
    /\ fpc = "f_raised" /\ fexc = "cancelled" /\ ~fallbackStarted
    /\ waits > 0 /\ found_device # None /\ ~scanning

====
